---- MODULE Spec2Model ----
(***************************************************************************)
(* Access-decision state machine of the face recognition engine            *)
(* (use-face-recognition-engine.ts, src/unnamed/part_024 lines 152-523).   *)
(*                                                                         *)
(* Times are in milliseconds, as in the source.  Distances are in          *)
(* hundredths (0.45 is 45).  A detection's descriptor is modelled by the   *)
(* tuple of its euclidean distances to the roster rows, in roster order.   *)
(***************************************************************************)
EXTENDS Integers, Sequences, FiniteSets, TLC

\* ---- configuration constants (part_024 lines 157-164) ----
ACCEPTED_COOLDOWN_MS == 10000
UNKNOWN_COOLDOWN_MS == 6000
DISAPPEAR_RESET_MS == 2000
AUTO_PAUSE_TIMEOUT_MS == 300000
MATCH_THRESHOLD == 45
MIN_PERSISTENCE_FRAMES == 3

\* The accepted cooldown the project's documentation states (15 seconds).
DOC_ACCEPTED_COOLDOWN_MS == 15000

\* ---- bounds of the model ----
\* Date.now() when the hook mounts.
StartTime == 20000
\* How long after mounting the clock is followed.
Horizon == 18000
\* Time between two invocations of processFrame.
FrameInterval == 1500
\* Most faces in one frame.
MaxFaces == 2

MaxTime == StartTime + Horizon

\* ---- roster ----
\* "no row": an undefined candidateUser / matchedUser, a null match.
NoRow == [id |-> 0, user_id |-> "none", is_banned |-> FALSE]

\* RecognitionFaceRow, reduced to the fields the engine reads.
InitialFaces ==
  << [id |-> 1, user_id |-> "u1", is_banned |-> FALSE],
     [id |-> 2, user_id |-> "u2", is_banned |-> FALSE],
     [id |-> 3, user_id |-> "u3", is_banned |-> TRUE] >>

\* Descriptors the camera can deliver: distances to rows 1..3.
DescU1 == <<10, 60, 60>>
DescU2 == <<60, 20, 60>>
DescBanned == <<30, 60, 5>>
DescStranger == <<60, 45, 60>>

Descriptors == {DescU1, DescU2, DescBanned, DescStranger}

\* Sequences of at most n distinct elements of S: two faces of one frame never
\* have the same descriptor.
RECURSIVE SeqsUpTo(_, _)
SeqsUpTo(S, n) ==
  IF n = 0 THEN {<<>>}
  ELSE LET shorter == SeqsUpTo(S, n - 1)
           longest == {t \in shorter : Len(t) = n - 1}
       IN shorter \cup
          UNION {{Append(s, x) : x \in S \ {s[i] : i \in 1..Len(s)}} : s \in longest}

\* The detections one frame can hold.
Frames == SeqsUpTo(Descriptors, MaxFaces)

VARIABLES
  now,                   \* Date.now() read by the latest processFrame
  knownFaces,            \* normalizedKnownFaces.current
  isScanning,            \* useState(true)
  lastUnlockTime,        \* lastUnlockTimeRef.current: Map userId -> time
  lastUnknownRejectTime, \* lastUnknownRejectTimeRef.current
  lastFacesSeenTime,     \* lastFacesSeenTimeRef.current
  lastFaceDetectedTime,  \* lastFaceDetectedTimeRef.current
  decisionBuffer,        \* decisionBufferRef.current
  flights,               \* the detections awaited, each with its closure's isActive
  frame,                 \* detections of the latest processFrame
  detectedFaces,         \* the list the latest step gave to setDetectedFaces
  step,                  \* what the latest processFrame did
  proposed,              \* proposedDecision of the latest processFrame
  emitted,               \* the onAccessDecision call of the latest processFrame
  log,                   \* history: times of the last commands and of the last face
  prevSame,              \* history: time of the command before the emitted one
  cool,                  \* history: the cooldown the latest frame was subject to
  unlockStreak,          \* history: unlock proposals since the last deny proposal
  facesSinceGap,         \* history: faces-present frames since the last gap
  run,                   \* history: frames since the last command
  seen,                  \* history: the latest frame's place in that run
  solo,                  \* history: frames showing one member alone
  unk,                   \* history: frames showing an unknown face
  candidateRun,          \* history: the candidate of the latest unlock proposals
  pauseRun,              \* history: faces-present frames since the latest resume
  client,                \* MqttClient.client: "null" or "client"
  connected,             \* MqttClient.client?.connected
  callbacks,             \* MqttClient.callbacks: topic -> list of callbacks
  subscribed,            \* the topics the broker holds for the connection
  outbox,                \* the messages the latest step handed to a transport
  published,             \* the call of MqttClient.publish the latest step made
  calls,                 \* history: number of calls of MqttClient.publish
  refused,               \* history: the calls made while not connected
  sent,                  \* history: the calls whose message reached the transport
  inbox,                 \* the run of the message handler the latest step made
  lost,                  \* history: the latest command whose publish was refused
  logging,               \* loggingRef.current
  visit,                 \* the visit-log request the latest step issued
  notify                 \* the call of AccessControlService.notify being served

engineVars == <<now, knownFaces, isScanning, lastUnlockTime, lastUnknownRejectTime,
                lastFacesSeenTime, lastFaceDetectedTime, decisionBuffer, flights>>
obsVars == <<frame, detectedFaces, step, proposed, emitted, log, prevSame, cool, unlockStreak,
             facesSinceGap, run, seen, solo, unk, candidateRun, pauseRun>>
mqttVars == <<client, connected, callbacks, subscribed, outbox, published, calls,
              refused, sent, inbox, lost>>
logVars == <<logging, visit>>
vars == <<engineVars, obsVars, mqttVars, logVars, notify>>

\* ---- helpers ----
UserId(row) == row.user_id

\* lastUnlockTimeRef.current.get(userId) || 0
LastUnlock(map, userId) == IF userId \in DOMAIN map THEN map[userId] ELSE 0

\* Faulty variant: the entry is not written.
MapSetNothing(map, k, v) == map

MapSet(map, k, v) == [x \in DOMAIN map \cup {k} |-> IF x = k THEN v ELSE map[x]]

NoMatch == [face |-> NoRow, distance |-> -1]

\* faceapi.euclideanDistance(detection.descriptor, known.descriptor): a
\* descriptor is given by its distances to the enrolled rows.
EuclideanDistance(descriptor, known) == descriptor[known.id]

RECURSIVE BestMatchFrom(_, _, _, _)
BestMatchFrom(roster, descriptor, i, bestMatch) ==
  IF i > Len(roster) THEN bestMatch
  ELSE LET distance == EuclideanDistance(descriptor, roster[i])
       IN IF distance < MATCH_THRESHOLD
             /\ (bestMatch = NoMatch \/ distance < bestMatch.distance)
          THEN BestMatchFrom(roster, descriptor, i + 1,
                             [face |-> roster[i], distance |-> distance])
          ELSE BestMatchFrom(roster, descriptor, i + 1, bestMatch)

BestMatch(roster, descriptor) == BestMatchFrom(roster, descriptor, 1, NoMatch)

\* One DetectedFace.
ClassifyFace(roster, descriptor) ==
  LET bestMatch == BestMatch(roster, descriptor)
      isKnown == bestMatch # NoMatch
  IN [descriptor |-> descriptor,
      match |-> bestMatch,
      status |-> IF isKnown THEN "known" ELSE "unknown",
      isBanned |-> IF isKnown THEN bestMatch.face.is_banned ELSE FALSE]

CurrentFaces(roster, detections) ==
  [i \in 1..Len(detections) |-> ClassifyFace(roster, detections[i])]

HasKnown(currentFaces) == \E i \in 1..Len(currentFaces) : currentFaces[i].status = "known"
HasUnknown(currentFaces) == \E i \in 1..Len(currentFaces) : currentFaces[i].status = "unknown"
AllKnown(currentFaces) == \A i \in 1..Len(currentFaces) : currentFaces[i].status = "known"
AllUnknown(currentFaces) == \A i \in 1..Len(currentFaces) : currentFaces[i].status = "unknown"

RECURSIVE UnlockCandidates(_)
UnlockCandidates(currentFaces) ==
  IF currentFaces = <<>> THEN <<>>
  ELSE LET f == Head(currentFaces)
           rest == UnlockCandidates(Tail(currentFaces))
       IN IF f.status = "known" /\ ~f.isBanned THEN <<f.match>> \o rest ELSE rest

\* Array.prototype.sort((a, b) => a.distance - b.distance): stable.
RECURSIVE InsertByDistance(_, _)
InsertByDistance(m, sorted) ==
  IF sorted = <<>> THEN <<m>>
  ELSE IF m.distance < Head(sorted).distance THEN <<m>> \o sorted
       ELSE <<Head(sorted)>> \o InsertByDistance(m, Tail(sorted))

RECURSIVE SortByDistance(_)
SortByDistance(ms) ==
  IF ms = <<>> THEN <<>>
  ELSE InsertByDistance(ms[Len(ms)], SortByDistance(SubSeq(ms, 1, Len(ms) - 1)))

\* The classification of one frame: the faces and the flags of the matching loop.
Classify(roster, detections) ==
  LET currentFaces == CurrentFaces(roster, detections)
  IN [currentFaces |-> currentFaces,
      hasKnown |-> HasKnown(currentFaces),
      hasUnknown |-> HasUnknown(currentFaces),
      allKnown |-> AllKnown(currentFaces),
      allUnknown |-> AllUnknown(currentFaces),
      unlockCandidates |-> UnlockCandidates(currentFaces)]

\* The rosters the engine works with.
\* The table after an administrator banned u1.
FacesAfterBan == [InitialFaces EXCEPT ![1].is_banned = TRUE]

Rosters == {InitialFaces, FacesAfterBan}

\* Classify, tabulated.
Classified == [roster \in Rosters |-> [detections \in Frames |-> Classify(roster, detections)]]

\* The best match among all current faces (the all-banned branch).
RECURSIVE BestAnyFrom(_, _, _)
BestAnyFrom(currentFaces, i, bestAny) ==
  IF i > Len(currentFaces) THEN bestAny
  ELSE LET face == currentFaces[i]
       IN IF face.match # NoMatch
             /\ (bestAny = NoMatch \/ face.match.distance < bestAny.distance)
          THEN BestAnyFrom(currentFaces, i + 1, face.match)
          ELSE BestAnyFrom(currentFaces, i + 1, bestAny)

Proposal(decision, candidate, reason) ==
  [decision |-> decision, candidate |-> candidate, reason |-> reason]

NoProposal == Proposal("none", NoRow, "")

\* Faulty variant: the cooldown is left to the gate, as if checked at action only.
ProposeUnlockAnyTime(best, t, unlockMap, reason) ==
  Proposal("unlock", best.face, reason)

\* Rules 4 and 5 when a candidate exists: unlock unless the candidate cools down.
ProposeUnlock(best, t, unlockMap, reason) ==
  IF t - LastUnlock(unlockMap, UserId(best.face)) >= ACCEPTED_COOLDOWN_MS
  THEN Proposal("unlock", best.face, reason)
  ELSE NoProposal

\* Rules 1 to 3: deny unless the unknown cooldown runs.
ProposeUnknownDeny(t, unknownReject, reason) ==
  IF t - unknownReject >= UNKNOWN_COOLDOWN_MS
  THEN Proposal("deny", NoRow, reason)
  ELSE NoProposal

\* Faulty variant: the first candidate in frame order, the sort forgotten.
BestCandidateUnsorted(unlockCandidates) == unlockCandidates[1]

\* Candidate of rule 4: the unlock candidates sorted by distance, first one.
BestCandidate(unlockCandidates) == SortByDistance(unlockCandidates)[1]

\* Faulty variant: the unlock rules are tried before the mixed-group rule.
ProposeDecisionCandidatesFirst(c, t, unlockMap, unknownReject) ==
  IF c.unlockCandidates # <<>>
  THEN ProposeUnlock(BestCandidate(c.unlockCandidates), t, unlockMap, "Face recognized")
  ELSE IF c.hasUnknown
  THEN ProposeUnknownDeny(t, unknownReject, "Unknown face detected")
  ELSE Proposal("deny", BestAnyFrom(c.currentFaces, 1, NoMatch).face,
                "Access denied (Banned)")

\* Aggregation rules and decision logic of one faces-present frame.
ProposeDecision(c, t, unlockMap, unknownReject) ==
  LET n == Len(c.currentFaces)
  IN IF c.hasKnown /\ c.hasUnknown
     THEN ProposeUnknownDeny(t, unknownReject, "Mixed group detected (Security Alert)")
     ELSE IF c.allUnknown /\ n > 1
     THEN ProposeUnknownDeny(t, unknownReject, "Multiple unknown faces")
     ELSE IF c.allUnknown /\ n = 1
     THEN ProposeUnknownDeny(t, unknownReject, "Unknown face detected")
     ELSE IF c.allKnown /\ n > 1
     THEN IF c.unlockCandidates # <<>>
          THEN ProposeUnlock(BestCandidate(c.unlockCandidates), t, unlockMap,
                             "Recognized (Multi-face)")
          ELSE Proposal("deny", BestAnyFrom(c.currentFaces, 1, NoMatch).face,
                        "Access denied (Banned)")
     ELSE IF c.allKnown /\ n = 1
     THEN IF c.unlockCandidates # <<>>
          THEN ProposeUnlock(c.unlockCandidates[1], t, unlockMap, "Face recognized")
          ELSE Proposal("deny", c.currentFaces[1].match.face, "Access denied (Banned)")
     ELSE NoProposal

\* ---- persistence buffer ----
EmptyBuffer == [type |-> "none", count |-> 0, candidateUser |-> NoRow, reason |-> ""]

\* Faulty variant: the count goes on when the proposed type changes.
UpdateBufferNoRestart(buffer, p) ==
  [type |-> p.decision,
   count |-> buffer.count + 1,
   candidateUser |-> p.candidate,
   reason |-> p.reason]

\* Faulty variant: the candidate of the first vote is kept while the count goes on.
UpdateBufferKeepCandidate(buffer, p) ==
  IF p.decision = buffer.type /\ p.decision # "none"
  THEN [buffer EXCEPT !.count = @ + 1, !.reason = p.reason]
  ELSE [type |-> p.decision, count |-> 1, candidateUser |-> p.candidate,
        reason |-> p.reason]

UpdateBuffer(buffer, p) ==
  IF p.decision = buffer.type /\ p.decision # "none"
  THEN [buffer EXCEPT !.count = @ + 1,
                      !.candidateUser = IF p.decision = "unlock" THEN p.candidate ELSE @,
                      !.reason = p.reason]
  ELSE [type |-> p.decision, count |-> 1, candidateUser |-> p.candidate,
        reason |-> p.reason]

\* ---- execute decision ----
NoEvent == [type |-> "none", reason |-> "", timestamp |-> 0, matchedUser |-> NoRow]

\* Faulty variant: the unlock gate opens one frame late.
UnlockGateLate(buffer, t, unlockMap) ==
  /\ buffer.count > MIN_PERSISTENCE_FRAMES
  /\ buffer.type = "unlock"
  /\ buffer.candidateUser # NoRow
  /\ t - LastUnlock(unlockMap, UserId(buffer.candidateUser)) >= ACCEPTED_COOLDOWN_MS

\* Final cooldown check of the unlock gate.
UnlockGate(buffer, t, unlockMap) ==
  /\ buffer.count >= MIN_PERSISTENCE_FRAMES
  /\ buffer.type = "unlock"
  /\ buffer.candidateUser # NoRow
  /\ t - LastUnlock(unlockMap, UserId(buffer.candidateUser)) >= ACCEPTED_COOLDOWN_MS

\* Faulty variant: the deny gate without its final cooldown check.
DenyGateNoCooldown(buffer, t, unknownReject) ==
  /\ buffer.count >= MIN_PERSISTENCE_FRAMES
  /\ ~(buffer.type = "unlock" /\ buffer.candidateUser # NoRow)
  /\ buffer.type = "deny"

\* Faulty variant: the deny gate opens one frame late.
DenyGateLate(buffer, t, unknownReject) ==
  /\ buffer.count > MIN_PERSISTENCE_FRAMES
  /\ ~(buffer.type = "unlock" /\ buffer.candidateUser # NoRow)
  /\ buffer.type = "deny"
  /\ t - unknownReject >= UNKNOWN_COOLDOWN_MS

\* Final cooldown check of the deny gate.
DenyGate(buffer, t, unknownReject) ==
  /\ buffer.count >= MIN_PERSISTENCE_FRAMES
  /\ ~(buffer.type = "unlock" /\ buffer.candidateUser # NoRow)
  /\ buffer.type = "deny"
  /\ t - unknownReject >= UNKNOWN_COOLDOWN_MS

\* Faulty variant: the count is kept after the action.
KeepAfterAction(buffer) == buffer

\* "Reset buffer after action".
ResetAfterAction(buffer) == [buffer EXCEPT !.count = 0]

\* The AccessDecisionEvent handed to onAccessDecision.
UnlockEvent(buffer, t) ==
  [type |-> "unlock",
   reason |-> IF buffer.reason = "" THEN "Recognized" ELSE buffer.reason,
   timestamp |-> t,
   matchedUser |-> buffer.candidateUser]

DenyEvent(buffer, t) ==
  [type |-> "deny",
   reason |-> IF buffer.reason = "" THEN "Access denied" ELSE buffer.reason,
   timestamp |-> t,
   matchedUser |-> buffer.candidateUser]

\* ---- history of the frames, kept for the properties ----
Min(a, b) == IF a < b THEN a ELSE b
Max(a, b) == IF a > b THEN a ELSE b

\* Rows of a roster nearer than the threshold to a descriptor.
Matches(roster, descriptor) ==
  {i \in 1..Len(roster) : descriptor[i] < MATCH_THRESHOLD}

IsKnownDesc(roster, descriptor) == Matches(roster, descriptor) # {}

\* Smallest distance of a known descriptor to the roster, and a row at that distance.
NearestDist(roster, descriptor) ==
  CHOOSE x \in {descriptor[i] : i \in Matches(roster, descriptor)} :
    \A i \in Matches(roster, descriptor) : x <= descriptor[i]

NearestRow(roster, descriptor) ==
  roster[CHOOSE i \in Matches(roster, descriptor) :
           descriptor[i] = NearestDist(roster, descriptor)]

IsBannedDesc(roster, descriptor) ==
  IsKnownDesc(roster, descriptor) /\ NearestRow(roster, descriptor).is_banned

IsMemberDesc(roster, descriptor) ==
  IsKnownDesc(roster, descriptor) /\ ~NearestRow(roster, descriptor).is_banned

FacesOf(detections) == {detections[i] : i \in 1..Len(detections)}

\* What a frame shows: its kind, its non-banned matches, the smallest distance
\* among them and the identities at that distance, its banned matches.
Show(roster, detections) ==
  LET faces == FacesOf(detections)
      members == {x \in faces : IsMemberDesc(roster, x)}
      banned == {x \in faces : IsBannedDesc(roster, x)}
      dist == IF members = {} THEN -1
              ELSE CHOOSE x \in {NearestDist(roster, y) : y \in members} :
                     \A y \in members : x <= NearestDist(roster, y)
      bannedDist == IF banned = {} THEN -1
                    ELSE CHOOSE x \in {NearestDist(roster, y) : y \in banned} :
                           \A y \in banned : x <= NearestDist(roster, y)
  IN [kind |-> IF detections = <<>> THEN "absent"
               ELSE IF \A x \in faces : ~IsKnownDesc(roster, x) THEN "unknown"
               ELSE IF \E x \in faces : ~IsKnownDesc(roster, x) THEN "mixed"
               ELSE IF members = {} THEN "banned"
               ELSE "member",
      members |-> {UserId(NearestRow(roster, y)) : y \in members},
      memberDist |-> dist,
      bestMembers |-> {UserId(NearestRow(roster, y)) :
                         y \in {z \in members : NearestDist(roster, z) = dist}},
      bannedDist |-> bannedDist,
      bestBanned |-> {UserId(NearestRow(roster, y)) :
                        y \in {z \in banned : NearestDist(roster, z) = bannedDist}}]

\* Show, tabulated.
Shown == [roster \in Rosters |-> [detections \in Frames |-> Show(roster, detections)]]

NoTime == 0 - 1

LogGet(map, k) == IF k \in DOMAIN map THEN map[k] ELSE NoTime

\* "running" while the command a frame calls for was emitted less than its
\* cooldown window ago, "elapsed" otherwise.
Cool(detections, t, history) ==
  LET kind == Shown[knownFaces][detections].kind
      last == IF kind = "member"
              THEN LogGet(history.unlockAt,
                          CHOOSE u \in Shown[knownFaces][detections].bestMembers : TRUE)
              ELSE history.denyAt
      window == IF kind = "member" THEN ACCEPTED_COOLDOWN_MS ELSE UNKNOWN_COOLDOWN_MS
  IN IF kind = "absent" THEN "none"
     ELSE IF last # NoTime /\ t - last < window THEN "running"
     ELSE "elapsed"

NoRun == [base |-> <<>>, kept |-> FALSE, n |-> 0, trail |-> 0]
NoSeen == [kept |-> FALSE, n |-> 0, trail |-> 0]
NoSolo == [user |-> "none", n |-> 0, fresh |-> FALSE, vote |-> 0, emitAt |-> 0,
           emitTime |-> NoTime]
NoUnk == [n |-> 0, fresh |-> FALSE, vote |-> 0, emitAt |-> 0]

\* user and n: the candidate of the latest frame that proposed unlock and how
\* many of the latest such frames proposed it; votes: the faces-present frames
\* in a row that proposed unlock, no command among them.
NoCandidateRun == [user |-> "none", n |-> 0, votes |-> 0]

NoPauseRun == [resumed |-> FALSE, n |-> 0]

\* The votes of one type the buffer holds.
Vote(buffer, type) == IF buffer.type = type THEN buffer.count ELSE 0

\* History after a processFrame that classified no face.  track names the
\* histories the specification keeps: "vote", "run", "window", "candidate",
\* "resume".
ObserveIdle(track, kind, detections) ==
  /\ frame' = detections
  /\ detectedFaces' = <<>>
  /\ step' = kind
  /\ proposed' = "none"
  /\ emitted' = NoEvent
  /\ prevSame' = NoTime
  /\ cool' = "none"
  /\ seen' = NoSeen
  /\ UNCHANGED <<log, unlockStreak, facesSinceGap, candidateRun>>
  /\ pauseRun' = IF kind = "resume" THEN [resumed |-> TRUE, n |-> 0] ELSE pauseRun
  /\ IF kind = "absent"
     THEN run' = NoRun /\ solo' = NoSolo /\ unk' = NoUnk
     ELSE UNCHANGED <<run, solo, unk>>

\* History after a processFrame that classified faces, proposed p and emitted event.
ObserveFaces(track, detections, t, p, event) ==
  LET sh == Shown[knownFaces][detections]
      kind == sh.kind
      c == Cool(detections, t, log)
      user == UserId(event.matchedUser)
      cont == run.kept /\ detections = run.base
      s == [kept |-> cont,
            n |-> IF cont THEN run.n + 1 ELSE 0,
            trail |-> IF cont /\ c = "elapsed" THEN run.trail + 1 ELSE 0]
      alone == Len(detections) = 1 /\ kind = "member"
      who == IF alone THEN CHOOSE u \in sh.members : TRUE ELSE "none"
      soloCont == alone /\ solo.n >= 1 /\ solo.user = who
      soloEmit == event.type = "unlock" /\ user = who
      unkCont == unk.n >= 1
      \* the latest faces-present frame before this one emitted a command
      afterCommand == log.faceAt # NoTime
                      /\ (log.denyAt = log.faceAt
                          \/ \E u \in DOMAIN log.unlockAt : log.unlockAt[u] = log.faceAt)
      unkEmit == event.type = "deny"
  IN /\ frame' = detections
     /\ detectedFaces' = Classified[knownFaces][detections].currentFaces
     /\ step' = "faces"
     /\ proposed' = p.decision
     /\ emitted' = event
     /\ log' = [unlockAt |-> IF event.type = "unlock"
                             THEN MapSet(log.unlockAt, user, t) ELSE log.unlockAt,
                denyAt |-> IF event.type = "deny" THEN t ELSE log.denyAt,
                faceAt |-> t]
     /\ prevSame' = IF event.type = "unlock" THEN LogGet(log.unlockAt, user)
                    ELSE IF event.type = "deny" THEN log.denyAt
                    ELSE NoTime
     /\ cool' = c
     /\ unlockStreak' = IF "vote" \notin track THEN 0
                        ELSE IF p.decision = "unlock"
                        THEN Min((IF afterCommand THEN 0 ELSE unlockStreak) + 1,
                                 MIN_PERSISTENCE_FRAMES + 1)
                        ELSE 0
     /\ facesSinceGap' = IF "vote" \notin track THEN 0
                         ELSE IF log.faceAt # NoTime /\ t - log.faceAt > DISAPPEAR_RESET_MS
                         THEN 1
                         ELSE Min(facesSinceGap + 1, MIN_PERSISTENCE_FRAMES)
     /\ candidateRun' =
          LET votes == Min((IF afterCommand THEN 0 ELSE candidateRun.votes) + 1,
                           MIN_PERSISTENCE_FRAMES)
          IN IF "candidate" \notin track THEN NoCandidateRun
             ELSE IF p.decision # "unlock" THEN [candidateRun EXCEPT !.votes = 0]
             ELSE IF UserId(p.candidate) = candidateRun.user
             THEN [candidateRun EXCEPT !.n = Min(@ + 1, MIN_PERSISTENCE_FRAMES),
                                       !.votes = votes]
             ELSE [user |-> UserId(p.candidate), n |-> 1, votes |-> votes]
     /\ pauseRun' = IF "resume" \notin track THEN pauseRun
                    ELSE [pauseRun EXCEPT !.n = Min(@ + 1, MIN_PERSISTENCE_FRAMES)]
     /\ seen' = IF "run" \notin track THEN NoSeen ELSE s
     /\ run' = IF "run" \notin track THEN NoRun
               ELSE IF event.type # "none"
               THEN [base |-> detections, kept |-> TRUE, n |-> 0, trail |-> 0]
               ELSE IF s.kept
               THEN [base |-> run.base, kept |-> TRUE, n |-> s.n, trail |-> s.trail]
               ELSE NoRun
     /\ solo' = IF "window" \notin track \/ ~alone THEN NoSolo
                ELSE IF soloCont
                THEN [solo EXCEPT !.n = Min(@ + 1, MIN_PERSISTENCE_FRAMES + 1),
                                  !.emitAt = IF @ = 0 /\ soloEmit THEN solo.n + 1 ELSE @,
                                  !.emitTime = IF solo.emitAt = 0 /\ soloEmit THEN t ELSE @]
                ELSE [user |-> who, n |-> 1,
                      fresh |-> who \notin DOMAIN log.unlockAt,
                      vote |-> Vote(decisionBuffer, "unlock"),
                      emitAt |-> IF soloEmit THEN 1 ELSE 0,
                      emitTime |-> IF soloEmit THEN t ELSE NoTime]
     /\ unk' = IF "window" \notin track \/ kind \notin {"unknown", "mixed"} THEN NoUnk
               ELSE IF unkCont
               THEN [unk EXCEPT !.n = Min(@ + 1, MIN_PERSISTENCE_FRAMES + 1),
                                !.emitAt = IF @ = 0 /\ unkEmit THEN unk.n + 1 ELSE @]
               ELSE [n |-> 1,
                     fresh |-> c = "elapsed",
                     vote |-> Vote(decisionBuffer, "deny"),
                     emitAt |-> IF unkEmit THEN 1 ELSE 0]

\* ---- the MQTT client (lib/mqtt.ts) and the access channel ----
\* Most callbacks registered for one topic.
MaxCallbacks == 2
\* Most calls of publish that are followed.
MaxPublishes == 3

TopicMotion == "facebase/motion"
TopicAccess == "facebase/access"
Topics == {TopicMotion, TopicAccess}

\* The callbacks a caller can register: "wake" is the console's motion callback
\* (setIsScanning(true)), "watch" any other one.
Callbacks == {"wake", "watch"}

\* JSON.stringify of a boolean.
JsonBoolean(b) == IF b THEN "true" ELSE "false"

\* JSON.stringify of an object: the key/value pairs of the fields that are not
\* undefined.
JsonStringify(object) ==
  {<<k, object[k]>> : k \in {x \in DOMAIN object : object[x] # "undefined"}}

\* The payload handleAccessDecision publishes on facebase/access for an event
\* (isBanned is primaryUser?.user?.is_banned ?? false).
AccessPayload(event) ==
  [result |-> IF event.type = "unlock" THEN "unlocked" ELSE "denied",
   banned |-> event.matchedUser.is_banned]

\* The object handed to publish, with its values as JSON writes them.
AccessMessage(event) ==
  [result |-> AccessPayload(event).result,
   banned |-> JsonBoolean(AccessPayload(event).banned)]

\* The message AccessControlService.notify publishes: { result, ...payload }.
NotifyMessage(payload) ==
  [result |-> IF payload.status = "accepted" THEN "allowed" ELSE "denied",
   status |-> payload.status,
   banned |-> payload.banned]

\* The payloads notify is called with: the status, and banned if given.
NotifyPayloads ==
  [status : {"accepted", "rejected"}, banned : {"true", "false", "undefined"}]

\* Faulty variant: the message is handed to the transport whatever the link.
TransmitAlways(isConnected, topic, message, id) ==
  <<[topic |-> topic, payload |-> JsonStringify(message), id |-> id]>>

\* MqttClient.publish: the messages handed to the transport.
Transmit(isConnected, topic, message, id) ==
  IF isConnected
  THEN <<[topic |-> topic, payload |-> JsonStringify(message), id |-> id]>>
  ELSE <<>>

\* What publish returns to its caller: nothing, on either branch.
PublishReturn(isConnected) == IF isConnected THEN "undefined" ELSE "undefined"

NoPublish == [live |-> FALSE, returned |-> "none", id |-> 0]
NoLost == [type |-> "none", user |-> "none", at |-> NoTime]
NoDelivery == [topic |-> "none", raw |-> "none", invoked |-> <<>>]

\* MqttClient.publish(topic, message); track "mqtt" keeps the history of the calls.
Publish(track, topic, message) ==
  LET id == IF "mqtt" \in track THEN calls + 1 ELSE 0
      out == Transmit(connected, topic, message, id)
  IN /\ outbox' = out
     /\ published' = [live |-> connected, returned |-> PublishReturn(connected), id |-> id]
     /\ calls' = id
     /\ refused' = IF "mqtt" \in track /\ ~connected THEN refused \cup {id} ELSE refused
     /\ sent' = IF "mqtt" \in track
                THEN sent \cup {out[i].id : i \in 1..Len(out)} ELSE sent

NoVisit == [status |-> "none", matchedUserId |-> "none"]

\* The body of the POST /api/recognize request of a command.
VisitRequest(event) ==
  [status |-> IF event.type = "unlock" THEN "accepted" ELSE "rejected",
   matchedUserId |-> UserId(event.matchedUser)]

\* "Log to Supabase": nothing while an earlier request is awaited.
Logs(event, isLogging) == IF isLogging THEN NoVisit ELSE VisitRequest(event)

\* No call of AccessControlService.notify is being served.
NoCall ==
  [client |-> "none", timer |-> "none", payload |-> "none", awaiting |-> 0,
   publishes |-> 0, result |-> "none"]

\* A step in which nothing happens to a call of notify.
NotifyIdle == UNCHANGED notify

\* A step that issues no visit-log request.
LogIdle ==
  /\ visit' = NoVisit
  /\ UNCHANGED logging

\* handleAccessDecision(event): the publish on the access channel, then the
\* visit-log request.  Its response is awaited across the following steps where
\* the specification follows it ("log" in track), and has arrived before the
\* next step elsewhere.
HandleAccessDecision(track, event) ==
  /\ Publish(track, TopicAccess, AccessMessage(event))
  /\ visit' = Logs(event, logging)
  /\ logging' = IF "log" \in track THEN TRUE ELSE logging
  /\ NotifyIdle
  /\ inbox' = NoDelivery
  /\ lost' = IF "link" \in track /\ ~connected
             THEN [type |-> event.type, user |-> UserId(event.matchedUser),
                   at |-> event.timestamp]
             ELSE lost
  /\ UNCHANGED <<client, connected, callbacks, subscribed>>

\* A step that leaves the MQTT client alone.
QuietLink ==
  /\ outbox' = <<>>
  /\ published' = NoPublish
  /\ inbox' = NoDelivery
  /\ UNCHANGED <<client, connected, callbacks, subscribed, calls, refused, sent, lost>>

\* A step of the engine that calls no handler.
Quiet == QuietLink /\ LogIdle /\ NotifyIdle

\* ---- the frame loop ----
\* The hook after its first render.
EngineInitWith(roster) ==
  /\ now = StartTime
  /\ knownFaces = roster
  /\ isScanning = TRUE
  /\ lastUnlockTime = [u \in {} |-> 0]
  /\ lastUnknownRejectTime = 0
  /\ lastFacesSeenTime = StartTime
  /\ lastFaceDetectedTime = StartTime
  /\ decisionBuffer = EmptyBuffer
  /\ flights = {}
  /\ frame = <<>>
  /\ detectedFaces = <<>>
  /\ step = "mount"
  /\ proposed = "none"
  /\ emitted = NoEvent
  /\ log = [unlockAt |-> [u \in {} |-> 0], denyAt |-> NoTime, faceAt |-> NoTime]
  /\ prevSame = NoTime
  /\ cool = "none"
  /\ unlockStreak = 0
  /\ facesSinceGap = 0
  /\ run = NoRun
  /\ seen = NoSeen
  /\ solo = NoSolo
  /\ unk = NoUnk
  /\ candidateRun = NoCandidateRun
  /\ pauseRun = NoPauseRun

EngineInit == EngineInitWith(InitialFaces)

\* The console after mounting: its MQTT effect has called connect and subscribed
\* the motion callback.
Init ==
  /\ EngineInit
  /\ client = "client"
  /\ connected = FALSE
  /\ callbacks = [t \in {TopicMotion} |-> <<"wake">>]
  /\ subscribed = {}
  /\ outbox = <<>>
  /\ published = NoPublish
  /\ calls = 0
  /\ refused = {}
  /\ sent = {}
  /\ inbox = NoDelivery
  /\ lost = NoLost
  /\ logging = FALSE
  /\ visit = NoVisit
  /\ notify = NoCall

\* The frames followed where pausing is looked at: this many after mounting, and
\* twice as many once an idle window has gone by.
PauseSpan == 4 * FrameInterval

\* The clock is followed for Horizon after mounting, and for a while once an idle
\* window has gone by.
Followed(t) ==
  \/ t <= MaxTime
  \/ (t > AUTO_PAUSE_TIMEOUT_MS
      /\ t <= StartTime + AUTO_PAUSE_TIMEOUT_MS + 2 * PauseSpan)

\* The auto-pause check.
IdleTooLong(t, lastDetected) == t - lastDetected > AUTO_PAUSE_TIMEOUT_MS

\* Faulty variant: the frame step does not look at isScanning.
ScansWhilePaused(t) ==
  /\ Followed(t)
  /\ ~IdleTooLong(t, lastFaceDetectedTime)

\* processFrame gets past the isScanning and auto-pause checks at time t.
Scans(t) ==
  /\ isScanning
  /\ Followed(t)
  /\ ~IdleTooLong(t, lastFaceDetectedTime)

\* processFrame while the video is not ready: the frame is skipped.
FrameSkipped(track) ==
  LET t == now + FrameInterval
  IN /\ Scans(t)
     /\ now' = t
     /\ ObserveIdle(track, "skipped", <<>>)
     /\ Quiet
     /\ UNCHANGED <<knownFaces, isScanning, lastUnlockTime, lastUnknownRejectTime,
                    lastFacesSeenTime, lastFaceDetectedTime, decisionBuffer, flights>>

\* Faulty variant: every frame without detections clears the buffer.
DisappearResetAtOnce(buffer, timeSinceLastFace) == EmptyBuffer

\* The disappear reset of a frame without detections.
DisappearReset(buffer, timeSinceLastFace) ==
  IF timeSinceLastFace > DISAPPEAR_RESET_MS THEN EmptyBuffer ELSE buffer

\* The rest of processFrame once the detector returned nothing, for the frame
\* whose clock reading was t.
ProcessNoFaces(track, t) ==
  /\ decisionBuffer' = DisappearReset(decisionBuffer, t - lastFacesSeenTime)
  /\ ObserveIdle(track, "absent", <<>>)
  /\ Quiet
  /\ UNCHANGED <<knownFaces, lastUnlockTime, lastUnknownRejectTime,
                 lastFacesSeenTime, lastFaceDetectedTime>>

\* Faulty variant: the action counts only when its publish went out.
RecordedIfPublished(gate, isConnected) == gate /\ isConnected

\* Whether the registry is written and the buffer reset after onAccessDecision
\* was called: always, the handler's publish is not waited for nor looked at.
Recorded(gate, isConnected) == gate

\* The rest of processFrame once the detector returned detections, for the frame
\* whose clock reading was t.
ProcessFaces(track, detections, t) ==
  LET p == ProposeDecision(Classified[knownFaces][detections], t,
                           lastUnlockTime, lastUnknownRejectTime)
      buffer == UpdateBuffer(decisionBuffer, p)
      unlock == UnlockGate(buffer, t, lastUnlockTime)
      deny == DenyGate(buffer, t, lastUnknownRejectTime)
      event == IF unlock THEN UnlockEvent(buffer, t)
               ELSE IF deny THEN DenyEvent(buffer, t)
               ELSE NoEvent
  IN /\ lastFacesSeenTime' = t
     /\ lastFaceDetectedTime' = t
     /\ decisionBuffer' = IF Recorded(unlock \/ deny, connected)
                          THEN ResetAfterAction(buffer) ELSE buffer
     /\ lastUnlockTime' = IF Recorded(unlock, connected)
                          THEN MapSet(lastUnlockTime, UserId(buffer.candidateUser), t)
                          ELSE lastUnlockTime
     /\ lastUnknownRejectTime' = IF Recorded(deny, connected)
                                 THEN t ELSE lastUnknownRejectTime
     /\ ObserveFaces(track, detections, t, p, event)
     /\ IF event = NoEvent THEN Quiet ELSE HandleAccessDecision(track, event)
     /\ UNCHANGED knownFaces

\* processFrame with no detection.
FrameNoFaces(track) ==
  LET t == now + FrameInterval
  IN /\ Scans(t)
     /\ now' = t
     /\ ProcessNoFaces(track, t)
     /\ UNCHANGED <<isScanning, flights>>

\* processFrame with at least one detection, the detections being among frames.
FrameWithFacesAmong(track, frames) ==
  \E detections \in frames \ {<<>>} :
    LET t == now + FrameInterval
    IN /\ Scans(t)
       /\ now' = t
       /\ ProcessFaces(track, detections, t)
       /\ UNCHANGED <<isScanning, flights>>

\* processFrame with at least one detection.
FrameWithFaces(track) == FrameWithFacesAmong(track, Frames)

Next == FrameSkipped({}) \/ FrameNoFaces({}) \/ FrameWithFaces({})

Spec == Init /\ [][Next]_vars

\* The same frame loop, keeping the history of the votes.
NextVote == FrameSkipped({"vote"}) \/ FrameNoFaces({"vote"}) \/ FrameWithFaces({"vote"})

SpecVote == Init /\ [][NextVote]_vars

\* The same frame loop, keeping the history of the candidates of the votes.
NextCandidate ==
  \/ FrameSkipped({"candidate"})
  \/ FrameNoFaces({"candidate"})
  \/ FrameWithFaces({"candidate"})

SpecCandidate == Init /\ [][NextCandidate]_vars

\* The same frame loop, keeping the history of the frames since the last command.
NextRun == FrameSkipped({"run"}) \/ FrameNoFaces({"run"}) \/ FrameWithFaces({"run"})

SpecRun == Init /\ [][NextRun]_vars

\* The same frame loop, keeping the history of the three-frame windows.
NextWindow ==
  FrameSkipped({"window"}) \/ FrameNoFaces({"window"}) \/ FrameWithFaces({"window"})

SpecWindow == Init /\ [][NextWindow]_vars

\* ---- the MQTT client on its own ----
\* The module after import: MqttClient.getInstance(), nothing connected.
InitClient ==
  /\ EngineInit
  /\ client = "null"
  /\ connected = FALSE
  /\ callbacks = [t \in {} |-> <<>>]
  /\ subscribed = {}
  /\ outbox = <<>>
  /\ published = NoPublish
  /\ calls = 0
  /\ refused = {}
  /\ sent = {}
  /\ inbox = NoDelivery
  /\ lost = NoLost
  /\ logging = FALSE
  /\ visit = NoVisit
  /\ notify = NoCall

\* Raw payloads a message can carry: the motion event, another JSON document,
\* and text that is not JSON.
RawMotion == "{\"event\":\"motion_detected\"}"
RawOther == "{\"event\":\"door_closed\"}"
RawBroken == "motion_detected"
RawPayloads == {RawMotion, RawOther, RawBroken}

\* JSON.parse(message.toString()): ok is FALSE when it throws.
JsonParse(raw) ==
  IF raw = RawMotion THEN [ok |-> TRUE, event |-> "motion_detected"]
  ELSE IF raw = RawOther THEN [ok |-> TRUE, event |-> "door_closed"]
  ELSE [ok |-> FALSE, event |-> ""]

\* What the protocol calls a motion message: { "event": "motion_detected" }.
WellFormedMotion(raw) == JsonParse(raw).ok /\ JsonParse(raw).event = "motion_detected"

\* A step outside the frame loop, of the kind named: the engine's refs stay.
EngineIdle(kind) ==
  /\ ObserveIdle({}, kind, <<>>)
  /\ UNCHANGED <<now, knownFaces, lastUnlockTime, lastUnknownRejectTime,
                 lastFacesSeenTime, decisionBuffer>>

\* The effect cleanup: isActive = false in the closure of every awaited detection.
Deactivate(awaited) == {[f EXCEPT !.active = FALSE] : f \in awaited}

\* setIsScanning(value), and the effect on [isScanning] that restarts the idle
\* clock when scanning starts.
SetScanning(value) ==
  /\ isScanning' = value
  /\ lastFaceDetectedTime' = IF value /\ ~isScanning THEN now ELSE lastFaceDetectedTime
  /\ flights' = IF value # isScanning THEN Deactivate(flights) ELSE flights

\* MqttClient.connect(config): a new client unless one is connected.
MqttConnect ==
  /\ ~connected
  /\ client' = "client"
  /\ subscribed' = {}
  /\ LogIdle
  /\ NotifyIdle
  /\ outbox' = <<>>
  /\ published' = NoPublish
  /\ inbox' = NoDelivery
  /\ EngineIdle("connect")
  /\ UNCHANGED <<isScanning, lastFaceDetectedTime, flights, connected, callbacks, calls,
                 refused, sent, lost>>

\* Faulty variant: nothing is subscribed again on connect.
ResubscribeNothing(registered) == {}

\* The 'connect' handler: subscribe every key of callbacks.
Resubscribe(registered) == DOMAIN registered

\* The client's 'connect' event: the connection is established, also after mqtt's
\* automatic reconnect.
MqttOnConnect ==
  /\ client = "client"
  /\ ~connected
  /\ connected' = TRUE
  /\ subscribed' = Resubscribe(callbacks)
  /\ LogIdle
  /\ NotifyIdle
  /\ outbox' = <<>>
  /\ published' = NoPublish
  /\ inbox' = NoDelivery
  /\ EngineIdle("connected")
  /\ UNCHANGED <<isScanning, lastFaceDetectedTime, flights, client, callbacks, calls, refused,
                 sent, lost>>

\* The connection is lost; the broker drops the session's subscriptions.
MqttOnClose ==
  /\ connected
  /\ connected' = FALSE
  /\ subscribed' = {}
  /\ LogIdle
  /\ NotifyIdle
  /\ outbox' = <<>>
  /\ published' = NoPublish
  /\ inbox' = NoDelivery
  /\ EngineIdle("closed")
  /\ UNCHANGED <<isScanning, lastFaceDetectedTime, flights, client, callbacks, calls, refused,
                 sent, lost>>

\* MqttClient.subscribe(topic, callback).
MqttSubscribe ==
  \E topic \in Topics, cb \in Callbacks :
    LET known == topic \in DOMAIN callbacks
        list == IF known THEN callbacks[topic] ELSE <<>>
    IN /\ Len(list) < MaxCallbacks
       /\ callbacks' = MapSet(callbacks, topic, Append(list, cb))
       /\ subscribed' = IF ~known /\ connected THEN subscribed \cup {topic}
                        ELSE subscribed
       /\ LogIdle
       /\ NotifyIdle
       /\ outbox' = <<>>
       /\ published' = NoPublish
       /\ inbox' = NoDelivery
       /\ EngineIdle("subscribe")
       /\ UNCHANGED <<isScanning, lastFaceDetectedTime, flights, client, connected, calls,
                      refused, sent, lost>>

\* callbacks[topic].filter(cb => cb !== callback)
Without(list, callback) == SelectSeq(list, LAMBDA cb : cb # callback)

\* MqttClient.unsubscribe(topic, callback).
MqttUnsubscribe ==
  \E topic \in DOMAIN callbacks, cb \in Callbacks :
    LET list == Without(callbacks[topic], cb)
    IN /\ callbacks' = IF list = <<>>
                       THEN [t \in DOMAIN callbacks \ {topic} |-> callbacks[t]]
                       ELSE MapSet(callbacks, topic, list)
       /\ subscribed' = IF list = <<>> /\ connected THEN subscribed \ {topic}
                        ELSE subscribed
       /\ LogIdle
       /\ NotifyIdle
       /\ outbox' = <<>>
       /\ published' = NoPublish
       /\ inbox' = NoDelivery
       /\ EngineIdle("unsubscribe")
       /\ UNCHANGED <<isScanning, lastFaceDetectedTime, flights, client, connected, calls,
                      refused, sent, lost>>

\* The callbacks the 'message' handler invokes for a raw payload.
Dispatch(registered, topic, raw) ==
  IF topic \in DOMAIN registered /\ JsonParse(raw).ok THEN registered[topic] ELSE <<>>

\* The client's 'message' event for a message the broker forwards.
MqttOnMessage ==
  \E topic \in subscribed, raw \in RawPayloads :
    LET invoked == Dispatch(callbacks, topic, raw)
        wakes == \E i \in 1..Len(invoked) : invoked[i] = "wake"
    IN /\ connected
       /\ inbox' = [topic |-> topic, raw |-> raw, invoked |-> invoked]
       /\ IF wakes THEN SetScanning(TRUE)
          ELSE UNCHANGED <<isScanning, lastFaceDetectedTime, flights>>
       /\ LogIdle
       /\ NotifyIdle
       /\ outbox' = <<>>
       /\ published' = NoPublish
       /\ EngineIdle("message")
       /\ UNCHANGED <<client, connected, callbacks, subscribed, calls, refused, sent, lost>>

\* The operator's pause / resume button: setIsScanning(prev => !prev).
OperatorToggle ==
  /\ SetScanning(~isScanning)
  /\ EngineIdle("toggle")
  /\ Quiet

\* The events the console's decision handler can be called with.
ConsoleEvents ==
  {[type |-> "unlock", reason |-> "Face recognized", timestamp |-> now,
    matchedUser |-> InitialFaces[1]],
   [type |-> "deny", reason |-> "Unknown face detected", timestamp |-> now,
    matchedUser |-> NoRow],
   [type |-> "deny", reason |-> "Access denied (Banned)", timestamp |-> now,
    matchedUser |-> InitialFaces[3]]}

\* The engine calls onAccessDecision.
ConsoleDecision ==
  \E event \in ConsoleEvents :
    /\ calls < MaxPublishes
    /\ HandleAccessDecision({"mqtt"}, event)
    /\ EngineIdle("decision")
    /\ UNCHANGED <<isScanning, lastFaceDetectedTime, flights>>

\* AccessControlService.notify(payload) from call to resolution, for a call
\* whose client does not lose its connection: it connects and publishes, or the
\* connection fails or times out.
Notify ==
  \E payload \in NotifyPayloads,
     outcome \in {"published", "publish error", "connection error", "timeout"} :
    /\ LogIdle
    /\ NotifyIdle
    /\ outbox' = IF outcome = "published"
                 THEN <<[topic |-> TopicAccess,
                         payload |-> JsonStringify(NotifyMessage(payload)), id |-> 0]>>
                 ELSE <<>>
    /\ published' = NoPublish
    /\ inbox' = NoDelivery
    /\ EngineIdle("notify")
    /\ UNCHANGED <<isScanning, lastFaceDetectedTime, flights, client, connected, callbacks,
                   subscribed, calls, refused, sent, lost>>

NextMqtt ==
  \/ MqttConnect
  \/ MqttOnConnect
  \/ MqttOnClose
  \/ MqttSubscribe
  \/ MqttUnsubscribe
  \/ MqttOnMessage
  \/ OperatorToggle
  \/ ConsoleDecision
  \/ Notify

SpecMqtt == InitClient /\ [][NextMqtt]_vars

\* ---- one call of AccessControlService.notify, event by event ----
\* Most times the connect handler of one call runs where the call is followed.
MaxNotifyPublishes == 2

\* resolve(value): the promise keeps the first value it is resolved with.
Resolve(result, value) == IF result = "pending" THEN value ELSE result

\* A step of the server: the console and the engine are left alone.
ServerStep(kind, out) ==
  /\ LogIdle
  /\ outbox' = out
  /\ published' = NoPublish
  /\ inbox' = NoDelivery
  /\ EngineIdle(kind)
  /\ UNCHANGED <<isScanning, lastFaceDetectedTime, flights, client, connected, callbacks,
                 subscribed, calls, refused, sent, lost>>

\* notify(payload): mqtt.connect, the handlers are registered, the 6 s timer is set.
NotifyCall ==
  \E payload \in NotifyPayloads :
    /\ notify = NoCall
    /\ notify' = [client |-> "connecting", timer |-> "pending", payload |-> payload,
                  awaiting |-> 0, publishes |-> 0, result |-> "pending"]
    /\ ServerStep("notify", <<>>)

\* The client emits connect, after the first attempt or after a reconnect: the
\* handler publishes the message with qos 1 and waits for the acknowledgement.
NotifyOnConnect ==
  /\ notify.client \in {"connecting", "offline"}
  /\ notify.publishes < MaxNotifyPublishes
  /\ notify' = [notify EXCEPT !.client = "connected",
                              !.publishes = @ + 1,
                              !.awaiting = @ + 1]
  /\ ServerStep("notify connect",
                <<[topic |-> TopicAccess,
                   payload |-> JsonStringify(NotifyMessage(notify.payload)),
                   id |-> 0]>>)

\* The connection attempt fails or the connection is lost without an error event:
\* the client, which was not ended, will try again.
NotifyOnClose ==
  /\ notify.client \in {"connecting", "connected"}
  /\ notify' = [notify EXCEPT !.client = "offline"]
  /\ ServerStep("notify close", <<>>)

\* The client emits error: client.end(), resolve({ ok: false }).
NotifyOnError ==
  /\ notify.client \in {"connecting", "connected", "offline"}
  /\ notify' = [notify EXCEPT !.client = "ended", !.awaiting = 0,
                              !.result = Resolve(@, "MQTT connection failed")]
  /\ ServerStep("notify error", <<>>)

\* The publish callback runs, the broker having acknowledged the message or the
\* client reporting an error: client.end(), resolve.
NotifyOnPublished ==
  \E err \in BOOLEAN :
    /\ notify.client = "connected"
    /\ notify.awaiting > 0
    /\ notify' = [notify EXCEPT
                    !.client = "ended", !.awaiting = 0,
                    !.result = Resolve(@, IF err THEN "Failed to publish MQTT message"
                                          ELSE "ok")]
    /\ ServerStep("notify published", <<>>)

\* The timer's first line: if (client.connected) return.
TimerReturns(call) == call.client = "connected"

\* The 6 s timer fires.
NotifyTimeout ==
  /\ notify.timer = "pending"
  /\ notify' = IF TimerReturns(notify)
               THEN [notify EXCEPT !.timer = "fired"]
               ELSE [notify EXCEPT !.timer = "fired", !.client = "ended", !.awaiting = 0,
                                   !.result = Resolve(@, "MQTT connection timeout")]
  /\ ServerStep("notify timeout", <<>>)

NextNotify ==
  \/ NotifyCall
  \/ NotifyOnConnect
  \/ NotifyOnClose
  \/ NotifyOnError
  \/ NotifyOnPublished
  \/ NotifyTimeout

SpecNotify == InitClient /\ [][NextNotify]_vars

\* The timer fires, and the broker acknowledges a publish on a connection that
\* stays up; a lost connection need not come back, nor an error event be emitted.
SpecNotifyLive ==
  /\ InitClient
  /\ [][NextNotify]_vars
  /\ WF_vars(NotifyTimeout)
  /\ WF_vars(NotifyOnPublished)

\* ---- pausing, with the detection awaited ----
\* Most detections awaited at once: the loop's own and those of closures left behind.
MaxFlights == 2

\* The frames the detector returns where pausing and the link are looked at:
\* at most one face.
PauseFrames == {f \in Frames : Len(f) <= 1}

\* Faulty variant: the result is used whatever became of the closure.
DiscardsNothing(flight) == FALSE

\* The check after the await: if (!isActive || !isScanning) return.
Discards(flight) == ~flight.active

\* processFrame up to the await: the clock is read and the detector is called.
FrameStart ==
  LET t == now + FrameInterval
  IN /\ Scans(t)
     /\ t <= StartTime + PauseSpan \/ t > AUTO_PAUSE_TIMEOUT_MS
     /\ ~\E f \in flights : f.active
     /\ Cardinality(flights) < MaxFlights
     /\ now' = t
     /\ flights' = flights \cup {[at |-> t, active |-> TRUE]}
     /\ ObserveIdle({}, "started", <<>>)
     /\ Quiet
     /\ UNCHANGED <<knownFaces, isScanning, lastUnlockTime, lastUnknownRejectTime,
                    lastFacesSeenTime, lastFaceDetectedTime, decisionBuffer>>

\* processFrame after the await: the detector has returned.
FrameDone ==
  \E f \in flights, detections \in PauseFrames :
    /\ flights' = flights \ {f}
    /\ IF Discards(f)
       THEN /\ ObserveIdle({}, "discarded", detections)
            /\ Quiet
            /\ UNCHANGED <<knownFaces, lastUnlockTime, lastUnknownRejectTime,
                           lastFacesSeenTime, lastFaceDetectedTime, decisionBuffer>>
       ELSE IF detections = <<>>
       THEN ProcessNoFaces({}, f.at)
       ELSE ProcessFaces({}, detections, f.at)
    /\ UNCHANGED <<now, isScanning>>

\* The frames of an idle window, taken together: frame after frame finds no face
\* ("absent"), or the video is not ready ("skipped"), up to the last frame that
\* passes the auto-pause check.
IdleSpellOn(track) ==
  \E kind \in {"absent", "skipped"} :
    LET frames == (lastFaceDetectedTime + AUTO_PAUSE_TIMEOUT_MS - now) \div FrameInterval
        t == now + frames * FrameInterval
    IN /\ isScanning
       /\ flights = {}
       /\ frames >= 2
       /\ Followed(t)
       /\ now' = t
       /\ decisionBuffer' = IF kind = "absent"
                            THEN DisappearReset(decisionBuffer, t - lastFacesSeenTime)
                            ELSE decisionBuffer
       /\ ObserveIdle(track, kind, <<>>)
       /\ Quiet
       /\ UNCHANGED <<knownFaces, isScanning, lastUnlockTime, lastUnknownRejectTime,
                      lastFacesSeenTime, lastFaceDetectedTime, flights>>

IdleSpell == IdleSpellOn({})

\* processFrame when the idle window has gone by: setIsScanning(false) and return.
FrameAutoPauseOn(track) ==
  LET t == now + FrameInterval
  IN /\ isScanning
     /\ ~\E f \in flights : f.active
     /\ Followed(t)
     /\ IdleTooLong(t, lastFaceDetectedTime)
     /\ now' = t
     /\ SetScanning(FALSE)
     /\ ObserveIdle(track, "autopause", <<>>)
     /\ Quiet
     /\ UNCHANGED <<knownFaces, lastUnlockTime, lastUnknownRejectTime,
                    lastFacesSeenTime, decisionBuffer>>

FrameAutoPause == FrameAutoPauseOn({})

NextPause ==
  \/ FrameStart
  \/ FrameDone
  \/ IdleSpell
  \/ FrameAutoPause
  \/ OperatorToggle
  \/ MqttOnConnect
  \/ MqttOnMessage

SpecPause == Init /\ [][NextPause]_vars

\* ---- the frame loop over a link that comes and goes ----
NextLink ==
  \/ FrameSkipped({"link"})
  \/ FrameNoFaces({"link"})
  \/ FrameWithFacesAmong({"link"}, PauseFrames)
  \/ MqttOnConnect
  \/ MqttOnClose

SpecLink == Init /\ [][NextLink]_vars

\* ---- the frame loop across pauses and roster refreshes ----
\* The time a pause lasts where it is followed: longer than the disappear window.
PauseLength == 2 * FrameInterval

\* The operator's pause / resume button, its step named after what it did.
OperatorPauseResume ==
  /\ SetScanning(~isScanning)
  /\ ObserveIdle({"resume"}, IF isScanning THEN "pause" ELSE "resume", <<>>)
  /\ Quiet
  /\ UNCHANGED <<now, knownFaces, lastUnlockTime, lastUnknownRejectTime,
                 lastFacesSeenTime, decisionBuffer>>

\* Time goes by while the stream is paused: no processFrame runs.
PausedWait ==
  /\ ~isScanning
  /\ Followed(now + PauseLength)
  /\ now' = now + PauseLength
  /\ ObserveIdle({"resume"}, "paused", <<>>)
  /\ Quiet
  /\ UNCHANGED <<knownFaces, isScanning, lastUnlockTime, lastUnknownRejectTime,
                 lastFacesSeenTime, lastFaceDetectedTime, decisionBuffer, flights>>

\* The frames the detector returns here: nobody, u1, u2 or a stranger.
SessionFrames == {<<>>, <<DescU1>>, <<DescU2>>, <<DescStranger>>}

\* The roster is revalidated and comes back changed, u1 now banned:
\* normalizedKnownFaces is rebuilt and the frame-loop effect restarts.
RosterRefresh ==
  \E roster \in {FacesAfterBan} \ {knownFaces} :
    /\ knownFaces' = roster
    /\ flights' = Deactivate(flights)
    /\ ObserveIdle({"resume"}, "refresh", <<>>)
    /\ Quiet
    /\ UNCHANGED <<now, isScanning, lastUnlockTime, lastUnknownRejectTime,
                   lastFacesSeenTime, lastFaceDetectedTime, decisionBuffer>>

\* The console once its client is connected and holds the motion subscription.
InitSession ==
  /\ EngineInit
  /\ client = "client"
  /\ connected = TRUE
  /\ callbacks = [t \in {TopicMotion} |-> <<"wake">>]
  /\ subscribed = {TopicMotion}
  /\ outbox = <<>>
  /\ published = NoPublish
  /\ calls = 0
  /\ refused = {}
  /\ sent = {}
  /\ inbox = NoDelivery
  /\ lost = NoLost
  /\ logging = FALSE
  /\ visit = NoVisit
  /\ notify = NoCall

NextSession ==
  \/ FrameNoFaces({"resume"})
  \/ FrameWithFacesAmong({"resume"}, SessionFrames)
  \/ IdleSpellOn({"resume"})
  \/ FrameAutoPauseOn({"resume"})
  \/ OperatorPauseResume
  \/ PausedWait
  \/ RosterRefresh

SpecSession == InitSession /\ [][NextSession]_vars

\* ---- the frame loop and the visit log ----
\* The awaited POST /api/recognize settles: the finally block clears loggingRef.
LogSettled ==
  /\ logging
  /\ logging' = FALSE
  /\ visit' = NoVisit
  /\ NotifyIdle
  /\ EngineIdle("logged")
  /\ QuietLink
  /\ UNCHANGED <<isScanning, lastFaceDetectedTime, flights>>

NextLog ==
  \/ FrameSkipped({"log"})
  \/ FrameNoFaces({"log"})
  \/ FrameWithFacesAmong({"log"}, PauseFrames)
  \/ LogSettled

SpecLog == Init /\ [][NextLog]_vars

\* ---- properties of the decision engine ----

\* C1: a processed frame that shows at least one known and at least one unknown
\* face emits no unlock command, whatever the buffer and the cooldowns were.
MixedFrameNeverUnlocks ==
  (step = "faces" /\ Shown[knownFaces][frame].kind = "mixed") => emitted.type # "unlock"

\* A mixed frame was processed whose known face is a member never unlocked before,
\* so that nothing but the mixed-group rule stands between it and an unlock.
MixedFrameWithEligibleMember ==
  /\ step = "faces"
  /\ Shown[knownFaces][frame].kind = "mixed"
  /\ \E u \in Shown[knownFaces][frame].members : u \notin DOMAIN lastUnlockTime
  /\ emitted.type = "deny"

\* C2: two unlock commands for one identity are at least the documented accepted
\* cooldown (15 s) apart.
UnlocksFifteenSecondsApart ==
  (emitted.type = "unlock" /\ prevSame # NoTime)
    => emitted.timestamp - prevSame >= DOC_ACCEPTED_COOLDOWN_MS

\* C7: two deny commands, whatever their reasons, are at least the unknown
\* cooldown (6 s) apart.
DeniesSixSecondsApart ==
  (emitted.type = "deny" /\ prevSame # NoTime)
    => emitted.timestamp - prevSame >= UNKNOWN_COOLDOWN_MS

\* A second deny was emitted, for a banned face.
SecondDenyEmitted ==
  /\ emitted.type = "deny"
  /\ prevSame # NoTime
  /\ Shown[knownFaces][frame].kind = "banned"

\* C10: an emitted unlock names an identity that the emitting frame matches and
\* that is not banned, at the smallest distance among the frame's non-banned
\* matches.
UnlockNamesBestMember ==
  emitted.type = "unlock"
    => /\ step = "faces"
       /\ ~emitted.matchedUser.is_banned
       /\ UserId(emitted.matchedUser) \in Shown[knownFaces][frame].bestMembers

\* An unlock was emitted on a frame that also shows a banned match nearer than
\* the member it names.
UnlockBesideNearerBanned ==
  /\ emitted.type = "unlock"
  /\ Shown[knownFaces][frame].bannedDist # -1
  /\ Shown[knownFaces][frame].bannedDist < Shown[knownFaces][frame].memberDist

\* C3: an unlock is emitted only on the third or a later one of consecutive
\* faces-present frames that proposed unlock, none of them proposing deny or
\* none and no command emitted between them, and only when the candidate's
\* previous unlock lies at least the engine's accepted cooldown back.
UnlockNeedsThreeUnlockFrames ==
  emitted.type = "unlock"
    => /\ unlockStreak >= MIN_PERSISTENCE_FRAMES
       /\ (prevSame = NoTime \/ emitted.timestamp - prevSame >= ACCEPTED_COOLDOWN_MS)

\* An unlock was emitted after a deny had been emitted earlier.
UnlockAfterDeny ==
  /\ emitted.type = "unlock"
  /\ log.denyAt # NoTime
  /\ unlockStreak = MIN_PERSISTENCE_FRAMES

\* C4: no command is emitted before the third faces-present frame after a gap
\* of more than 2 s between two faces-present frames.
NoCommandBeforeThirdFrameAfterGap ==
  emitted.type # "none" => facesSinceGap >= MIN_PERSISTENCE_FRAMES

\* The kind of the latest frame.
Kind == Shown[knownFaces][frame].kind

\* The cooldown window of the command a frame of some kind calls for.
Window(kind) == IF kind = "member" THEN ACCEPTED_COOLDOWN_MS ELSE UNKNOWN_COOLDOWN_MS

\* C5 as stated: when the same faces have stayed since the last command and at
\* least 3 frames of them were processed, the command is emitted on the first
\* frame at which the cooldown has elapsed.
CommandOnFirstFrameAfterCooldown ==
  (step = "faces" /\ seen.kept /\ seen.n >= MIN_PERSISTENCE_FRAMES
     /\ cool = "elapsed" /\ seen.trail = 1)
    => emitted.type # "none"

\* C5 as amended: no command while the cooldown runs; a frame whose unlock or
\* unknown / mixed-group deny is held back by the cooldown proposes none and
\* resets the buffer to none with count 1, so with the same faces staying the
\* command comes on the third consecutive frame processed once the cooldown has
\* elapsed; only a frame of banned faces keeps its count through the cooldown,
\* and its deny comes on the first frame at which the cooldown has elapsed and
\* 3 frames were counted since the last command.
CommandAfterNewVoteOnceCooldownElapsed ==
  /\ (step = "faces" /\ cool = "running") => emitted = NoEvent
  /\ (step = "faces" /\ cool = "running" /\ Kind # "banned")
       => (decisionBuffer.type = "none" /\ decisionBuffer.count = 1)
  /\ (step = "faces" /\ seen.kept /\ cool = "elapsed" /\ Kind # "banned")
       => (emitted.type # "none" <=> seen.trail = MIN_PERSISTENCE_FRAMES)
  /\ (step = "faces" /\ seen.kept /\ cool = "elapsed" /\ Kind = "banned")
       => (emitted.type = "deny" <=> seen.n >= MIN_PERSISTENCE_FRAMES)
  /\ (step = "faces" /\ seen.kept /\ cool = "running" /\ Kind = "banned")
       => decisionBuffer.count = seen.n

\* The same member stayed through the cooldown and is unlocked again, on the
\* third frame since the cooldown elapsed.
SecondUnlockAfterNewVote ==
  /\ seen.kept
  /\ Kind = "member"
  /\ seen.n > MIN_PERSISTENCE_FRAMES
  /\ seen.trail = MIN_PERSISTENCE_FRAMES
  /\ emitted.type = "unlock"

\* C6: with the same faces staying after a command, the count is reset to 0 by
\* the command, no further command is emitted while the cooldown runs, no frame
\* is followed by more than one command in a window, and a command is emitted
\* again by the third frame processed once the cooldown has elapsed.
OneCommandPerCooldownWindow ==
  /\ emitted.type # "none" => decisionBuffer.count = 0
  /\ (seen.kept /\ emitted.type # "none")
       => (prevSame # NoTime /\ emitted.timestamp - prevSame >= Window(Kind))
  /\ (seen.kept /\ seen.trail >= MIN_PERSISTENCE_FRAMES) => emitted.type # "none"

\* Banned faces stayed after their deny and are denied again.
SecondCommandForSameFaces ==
  /\ seen.kept
  /\ emitted.type = "deny"
  /\ Kind = "banned"
  /\ seen.n >= MIN_PERSISTENCE_FRAMES

\* C8 as stated: when a single non-banned member X with no earlier unlock is the
\* only face of 3 consecutive processed frames, the third of them emits an
\* unlock naming X and records that frame's time as X's unlock time.
UnlockOnThirdFrameOfNewMember ==
  (step = "faces" /\ solo.n = MIN_PERSISTENCE_FRAMES /\ solo.fresh)
    => /\ emitted.type = "unlock"
       /\ UserId(emitted.matchedUser) = solo.user
       /\ LastUnlock(lastUnlockTime, solo.user) = now

\* C8 as amended: the buffer counts consecutive unlock proposals whoever they
\* name, so the unlock naming X is emitted on the frame of X that brings the
\* count to 3: the third frame of X when the buffer held no unlock vote before
\* them, the second or the first when it held one or two; X's unlock time is
\* recorded as the emitting frame's timestamp.
UnlockWhenCountReachesThree ==
  /\ (step = "faces" /\ solo.n = MIN_PERSISTENCE_FRAMES /\ solo.fresh)
       => /\ solo.emitAt = MIN_PERSISTENCE_FRAMES - solo.vote
          /\ solo.user \in DOMAIN lastUnlockTime
          /\ lastUnlockTime[solo.user] = solo.emitTime
  /\ (step = "faces" /\ solo.n >= 1 /\ solo.fresh /\ emitted.type = "unlock")
       => /\ UserId(emitted.matchedUser) = solo.user
          /\ emitted.timestamp = now
          /\ lastUnlockTime[solo.user] = now

\* A new member alone in three frames, no unlock vote before them, unlocked on the third.
NewMemberUnlockedOnThirdFrame ==
  /\ solo.n = MIN_PERSISTENCE_FRAMES
  /\ solo.fresh
  /\ solo.vote = 0
  /\ emitted.type = "unlock"
  /\ UserId(emitted.matchedUser) = solo.user

\* The deny reason rules 1 to 3 give a frame with an unknown face.
ExpectedReason(detections) ==
  IF Shown[knownFaces][detections].kind = "mixed"
  THEN "Mixed group detected (Security Alert)"
  ELSE IF Len(detections) > 1 THEN "Multiple unknown faces"
  ELSE "Unknown face detected"

\* C9 as stated: when 3 consecutive processed frames each hold an unknown face
\* and no deny was emitted in the 6 s before them, the third frame emits a deny
\* with the mixed-group reason when a known face is co-present and the unknown
\* reason otherwise.
DenyOnThirdFrameWithUnknown ==
  (step = "faces" /\ unk.n = MIN_PERSISTENCE_FRAMES /\ unk.fresh)
    => (emitted.type = "deny" /\ emitted.reason = ExpectedReason(frame))

\* C9 as amended: the buffer counts consecutive deny proposals whatever their
\* reason, the denies proposed for banned faces included, so the deny is emitted
\* on the frame that brings the count to 3: the third frame with an unknown
\* face when the buffer held no deny vote before them, an earlier one otherwise;
\* its reason is that of the emitting frame, mixed-group when a known face is
\* co-present and unknown otherwise, whatever the known match's distance.
DenyWhenCountReachesThree ==
  /\ (step = "faces" /\ unk.n = MIN_PERSISTENCE_FRAMES /\ unk.fresh)
       => unk.emitAt = Max(1, MIN_PERSISTENCE_FRAMES - unk.vote)
  /\ (step = "faces" /\ Kind \in {"unknown", "mixed"} /\ emitted.type = "deny")
       => emitted.reason = ExpectedReason(frame)

\* Three frames of a member beside a stranger, no deny vote before them, denied
\* on the third as a mixed group.
MixedGroupDeniedOnThirdFrame ==
  /\ unk.n = MIN_PERSISTENCE_FRAMES
  /\ unk.fresh
  /\ unk.vote = 0
  /\ Kind = "mixed"
  /\ Shown[knownFaces][frame].members # {}
  /\ emitted.type = "deny"
  /\ emitted.reason = "Mixed group detected (Security Alert)"

\* ---- the access channel ----

\* C11: every emitted deny carries the identity and the banned flag of the frame
\* that emits it: the nearest banned match, published with banned = true, when
\* the frame holds only banned faces; no identity, published with banned =
\* false, when the frame holds an unknown face and no banned match.
DenyCarriesIdentityOfItsFrame ==
  (step = "faces" /\ emitted.type = "deny")
    => LET sh == Shown[knownFaces][frame]
       IN /\ sh.kind = "banned"
               => /\ UserId(emitted.matchedUser) \in sh.bestBanned
                  /\ AccessPayload(emitted).banned
          /\ (sh.kind \in {"unknown", "mixed"} /\ sh.bestBanned = {})
               => /\ emitted.matchedUser = NoRow
                  /\ ~AccessPayload(emitted).banned

\* ---- properties of the MQTT client and of the access channel ----

\* The JSON documents handed to a transport for the access channel in the latest step.
AccessDocuments ==
  {outbox[i].payload : i \in {j \in 1..Len(outbox) : outbox[j].topic = TopicAccess}}

\* The messages of the latest step that went through the console's client.
ClientMessages == {outbox[i] : i \in {j \in 1..Len(outbox) : outbox[j].id # 0}}

\* C12: every message published on facebase/access, by the console's decision
\* handler or by AccessControlService.notify, has a result among unlocked,
\* denied, cooldown and a boolean banned.
AccessMessagesCarryResultAndBanned ==
  \A doc \in AccessDocuments :
    /\ \E v \in {"unlocked", "denied", "cooldown"} : <<"result", v>> \in doc
    /\ \E v \in {"true", "false"} : <<"banned", v>> \in doc

\* C13: a publish called while the client is not connected returns to its caller
\* something a successful publish does not return.
PublishWhileDisconnectedReportsFailure ==
  (published # NoPublish /\ ~published.live)
    => published.returned # PublishReturn(TRUE)

\* C14: a message passed to publish while the client is not connected is never
\* handed to the transport, in that call or later: whatever reconnects and
\* publishes follow, the messages sent are those of the calls made while
\* connected, each sent by its own call.
RefusedPublishNeverSent ==
  /\ sent \cap refused = {}
  /\ (published # NoPublish /\ ~published.live) => outbox = <<>>
  /\ \A m \in ClientMessages :
       m.id \notin refused /\ published.live /\ m.id = published.id

\* A publish is sent on a connection established after an earlier publish was refused.
PublishSentAfterRefusedOne ==
  /\ refused # {}
  /\ published.live
  /\ ClientMessages # {}
  /\ \E id \in refused : id < published.id

\* C15: whenever the connection is established or re-established, every topic
\* with a registered callback, those registered while disconnected included, is
\* subscribed again, and no publish goes out on a connection before that.
SubscriptionsRestoredOnConnect ==
  /\ connected => DOMAIN callbacks \subseteq subscribed
  /\ ClientMessages # {} => DOMAIN callbacks \subseteq subscribed

\* After a refused publish the client is connected, both topics have callbacks
\* and are subscribed, and a publish goes out.
PublishOnResubscribedConnection ==
  /\ refused # {}
  /\ connected
  /\ DOMAIN callbacks = Topics
  /\ subscribed = Topics
  /\ ClientMessages # {}

\* C19: a message on the motion topic whose payload is not the motion document
\* is dropped: no registered callback is invoked for it, so that a paused
\* stream stays paused.
MalformedMotionMessageDropped ==
  (inbox # NoDelivery /\ inbox.topic = TopicMotion /\ ~WellFormedMotion(inbox.raw))
    => inbox.invoked = <<>>

\* ---- properties of pausing ----

\* What pausing must leave alone: the decision buffer and both cooldown records.
DecisionStateKept == UNCHANGED <<decisionBuffer, lastUnlockTime, lastUnknownRejectTime>>

\* C16: a frame step taken when no face was detected for more than the idle
\* window pauses the stream, emits no command and leaves the decision buffer and
\* both cooldown records as they were; while the stream is paused no frame is
\* processed, and only the operator's button or a motion message sets it
\* scanning again.
AutoPauseOnlyPauses ==
  [][ /\ (isScanning /\ now' # now /\ IdleTooLong(now', lastFaceDetectedTime))
           => (~isScanning' /\ emitted' = NoEvent /\ outbox' = <<>> /\ DecisionStateKept)
      /\ ~isScanning
           => /\ now' = now
              /\ emitted' = NoEvent
              /\ outbox' = <<>>
              /\ DecisionStateKept
              /\ isScanning' => step' \in {"toggle", "message"}
    ]_vars

\* The stream was paused by the idle window with a vote and a denial on record.
AutoPausedWithVoteOnRecord ==
  /\ step = "autopause"
  /\ ~isScanning
  /\ decisionBuffer.type = "unlock"
  /\ decisionBuffer.count = 1
  /\ lastUnknownRejectTime > 0

\* C17: pausing the stream while a detection is awaited makes its result void:
\* when the detector returns, no command is emitted and neither the decision
\* buffer nor the cooldown records change, and no frame is started before the
\* stream is resumed.
PausedFlightDiscarded ==
  [][ /\ (isScanning /\ ~isScanning') => \A f \in flights' : ~f.active
      /\ \A f \in flights \ flights' :
           ~f.active => (emitted' = NoEvent /\ outbox' = <<>> /\ DecisionStateKept
                         /\ UNCHANGED <<lastFacesSeenTime, lastFaceDetectedTime>>)
      /\ ~isScanning => (now' = now /\ \A f \in flights' : ~f.active)
    ]_vars

\* The stream is paused and a detection that completes the third unlock vote
\* for a member has come back and was discarded.
ThirdVoteDiscarded ==
  /\ step = "discarded"
  /\ ~isScanning
  /\ frame = <<DescU1>>
  /\ decisionBuffer.type = "unlock"
  /\ decisionBuffer.count = MIN_PERSISTENCE_FRAMES - 1

\* ---- properties of the frame loop over the link ----

\* C18: a frame that decides a command writes the cooldown record and resets
\* the count to 0 whether its publish goes out or is refused; a refused command
\* is not sent later, and the next command of its kind comes only with a new
\* vote and once the cooldown counted from the refused one has elapsed.
CommandSettledWhateverThePublish ==
  [][ /\ now' = now => outbox' = <<>>
      /\ now' # now =>
           /\ outbox' # <<>> => (emitted' # NoEvent /\ connected)
           /\ (emitted' # NoEvent /\ ~connected) => outbox' = <<>>
           /\ emitted' # NoEvent =>
                /\ decisionBuffer'.count = 0
                /\ emitted'.type = "unlock"
                     => LastUnlock(lastUnlockTime', UserId(emitted'.matchedUser)) = now'
                /\ emitted'.type = "deny" => lastUnknownRejectTime' = now'
                /\ decisionBuffer.type = emitted'.type
                /\ decisionBuffer.count >= MIN_PERSISTENCE_FRAMES - 1
                /\ (/\ lost.type = emitted'.type
                    /\ emitted'.type = "unlock"
                         => lost.user = UserId(emitted'.matchedUser))
                     => now' - lost.at >= IF emitted'.type = "unlock"
                                          THEN ACCEPTED_COOLDOWN_MS
                                          ELSE UNKNOWN_COOLDOWN_MS
    ]_vars

\* A deny goes out after an earlier deny was refused by the link.
DenySentAfterRefusedDeny ==
  /\ step = "faces"
  /\ emitted.type = "deny"
  /\ published.live
  /\ outbox # <<>>
  /\ lost.type = "deny"
  /\ lost.at < now

\* ---- the classifier on its own ----

\* The rosters the recognize route can deliver: any rows of the table in any
\* order (the rows come ordered by created_at, newest first, and the ids are
\* not ordered by creation), the empty table included.
ClassifyRosters ==
  SeqsUpTo({InitialFaces[i] : i \in 1..Len(InitialFaces)}, Len(InitialFaces))

\* Distances well below, just below, at and just above the threshold.
ClassifyDistances == {30, MATCH_THRESHOLD - 1, MATCH_THRESHOLD, MATCH_THRESHOLD + 1}

ClassifyDescriptors == [1..Len(InitialFaces) -> ClassifyDistances]

ClassifyFrames == {<<descriptor>> : descriptor \in ClassifyDescriptors}

InitClassify ==
  /\ knownFaces \in ClassifyRosters
  /\ EngineInitWith(knownFaces)
  /\ client = "client"
  /\ connected = FALSE
  /\ callbacks = [t \in {TopicMotion} |-> <<"wake">>]
  /\ subscribed = {}
  /\ outbox = <<>>
  /\ published = NoPublish
  /\ calls = 0
  /\ refused = {}
  /\ sent = {}
  /\ inbox = NoDelivery
  /\ lost = NoLost
  /\ logging = FALSE
  /\ visit = NoVisit
  /\ notify = NoCall

\* The matching loop of processFrame applied to one frame.
ClassifyDetections ==
  \E detections \in ClassifyFrames :
    /\ frame' = detections
    /\ detectedFaces' = CurrentFaces(knownFaces, detections)
    /\ step' = "classified"
    /\ UNCHANGED <<proposed, emitted, log, prevSame, cool, unlockStreak,
                   facesSinceGap, run, seen, solo, unk, candidateRun, pauseRun>>
    /\ UNCHANGED <<engineVars, mqttVars, logVars, notify>>

NextClassify == ClassifyDetections

SpecClassify == InitClassify /\ [][NextClassify]_vars

\* ---- properties of the classifier ----

\* The positions of the roster whose row lies strictly below the threshold.
Below(roster, descriptor) ==
  {k \in 1..Len(roster) : EuclideanDistance(descriptor, roster[k]) < MATCH_THRESHOLD}

\* Among those, the nearest rows.
Nearest(roster, descriptor) ==
  {k \in Below(roster, descriptor) :
     \A j \in Below(roster, descriptor) :
       EuclideanDistance(descriptor, roster[k]) <= EuclideanDistance(descriptor, roster[j])}

\* C20: a face is known exactly when some enrolled row lies strictly below the
\* threshold 0.45, and then carries the nearest row, equal distances going to
\* the lowest enrollment id; at exactly 0.45, or with no row enrolled, it is
\* unknown.
KnownBelowThresholdNearestLowestId ==
  \A i \in 1..Len(detectedFaces) :
    LET face == detectedFaces[i]
        below == Below(knownFaces, frame[i])
        nearest == Nearest(knownFaces, frame[i])
    IN /\ face.status = "known" <=> below # {}
       /\ face.status \in {"known", "unknown"}
       /\ below = {} => face.match = NoMatch
       /\ below # {} =>
            \E k \in nearest :
              /\ \A j \in nearest : knownFaces[k].id <= knownFaces[j].id
              /\ face.match = [face |-> knownFaces[k],
                               distance |-> EuclideanDistance(frame[i], knownFaces[k])]

\* ---- properties of the frame loop as a whole ----

\* C21: at every moment at most one detection is awaited for the stream, the
\* stale closures that pause/resume and roster refreshes leave behind included.
OneClassificationInFlight == Cardinality(flights) <= 1

CountFollowsProposedType ==
  [][ /\ decisionBuffer'.type = "none" => decisionBuffer'.count <= 1
      /\ step' = "faces" =>
           /\ decisionBuffer'.type = proposed'
           /\ emitted' # NoEvent
                => (/\ decisionBuffer'.count = 0
                    /\ emitted'.type \in {"unlock", "deny"}
                    /\ emitted'.type = decisionBuffer'.type)
           /\ emitted' = NoEvent
                => decisionBuffer'.count =
                     IF proposed' # decisionBuffer.type THEN 1
                     ELSE IF proposed' # "none" THEN decisionBuffer.count + 1
                     ELSE 1
    ]_vars

\* A command was emitted and the count of its type is back at 0.
CountResetByCommand ==
  /\ step = "faces"
  /\ emitted # NoEvent
  /\ decisionBuffer.count = 0
  /\ decisionBuffer.type = emitted.type

\* C27: an unlock for identity X is emitted only if X was the unlock candidate
\* in each of the 3 most recent frames that proposed unlock.
UnlockNamesCandidateOfThreeFrames ==
  emitted.type = "unlock"
    => /\ candidateRun.user = UserId(emitted.matchedUser)
       /\ candidateRun.n >= MIN_PERSISTENCE_FRAMES

\* C27, as the persistence buffer counts: an unlock for identity X is emitted
\* only on the third or a later one of consecutive faces-present frames that
\* proposed unlock, and X is the candidate of the emitting frame; the earlier
\* frames of the vote may have proposed other candidates.
UnlockNamesCandidateOfEmittingFrame ==
  emitted.type = "unlock"
    => /\ candidateRun.votes >= MIN_PERSISTENCE_FRAMES
       /\ candidateRun.user = UserId(emitted.matchedUser)
       /\ candidateRun.n >= 1

\* An unlock was emitted for a candidate that entered the vote on its last frame.
UnlockForCandidateOfLastFrameOnly ==
  /\ emitted.type = "unlock"
  /\ candidateRun.votes = MIN_PERSISTENCE_FRAMES
  /\ candidateRun.n = 1

\* ---- properties of the visit log ----

\* C25: every command the engine emits is handed to the audit log: a visit-log
\* request carrying its status and identity is issued for it, whatever requests
\* are still awaited.
EveryCommandLogged ==
  emitted # NoEvent
    => /\ visit # NoVisit
       /\ visit.status = (IF emitted.type = "unlock" THEN "accepted" ELSE "rejected")
       /\ visit.matchedUserId = UserId(emitted.matchedUser)

\* ---- properties of the frame loop across pauses and roster refreshes ----

\* C24: the cooldown registry changes only on a frame that emits a command: an
\* identity's last-unlock time is written exactly when an unlock for it is
\* emitted, the last-denial time exactly when a deny is emitted, each to that
\* frame's timestamp and never to a smaller value; disappearance reset,
\* auto-pause, pause/resume and roster refresh leave it as it was.
RegistryWrittenOnlyByCommands ==
  [][ LET user == UserId(emitted'.matchedUser)
      IN /\ emitted'.type = "unlock"
              => (/\ step' = "faces"
                  /\ emitted'.timestamp = now'
                  /\ LastUnlock(lastUnlockTime', user) = now'
                  /\ \A u \in (DOMAIN lastUnlockTime \cup DOMAIN lastUnlockTime') \ {user} :
                       LastUnlock(lastUnlockTime', u) = LastUnlock(lastUnlockTime, u)
                  /\ LastUnlock(lastUnlockTime, user) <= now'
                  /\ lastUnknownRejectTime' = lastUnknownRejectTime)
         /\ emitted'.type = "deny"
              => (/\ step' = "faces"
                  /\ emitted'.timestamp = now'
                  /\ lastUnknownRejectTime' = now'
                  /\ lastUnknownRejectTime <= now'
                  /\ lastUnlockTime' = lastUnlockTime)
         /\ emitted'.type = "none"
              => UNCHANGED <<lastUnlockTime, lastUnknownRejectTime>>
         /\ step' \in {"absent", "skipped", "autopause", "pause", "resume",
                       "paused", "refresh"}
              => emitted'.type = "none"
    ]_vars

\* After a pause and a resume, a second unlock of one identity overwrote its
\* earlier entry.
UnlockTimeOverwrittenAfterResume ==
  /\ emitted.type = "unlock"
  /\ pauseRun.resumed
  /\ prevSame # NoTime
  /\ prevSame < now
  /\ LastUnlock(lastUnlockTime, UserId(emitted.matchedUser)) = now

\* C28: no message with result unlocked is published with banned true, and no
\* unlock is published for an identity that the roster in use at the emitting
\* frame marks as banned, whatever frames and roster refreshes came before.
NoUnlockForBanned ==
  /\ \A doc \in AccessDocuments :
       <<"result", "unlocked">> \in doc => <<"banned", "false">> \in doc
  /\ emitted.type = "unlock"
       => /\ ~emitted.matchedUser.is_banned
          /\ \A k \in 1..Len(knownFaces) :
               UserId(knownFaces[k]) = UserId(emitted.matchedUser)
                 => ~knownFaces[k].is_banned
          /\ \E doc \in AccessDocuments : <<"result", "unlocked">> \in doc

\* After u1 was banned by a roster refresh, u1 was seen again and an unlock was
\* published for another member.
UnlockPublishedAfterBan ==
  /\ knownFaces = FacesAfterBan
  /\ emitted.type = "unlock"
  /\ LastUnlock(lastUnlockTime, "u1") > 0
  /\ \E doc \in AccessDocuments : <<"result", "unlocked">> \in doc

\* C29: after the stream was paused and resumed, no command is emitted before 3
\* faces-present frames have been processed since the resume.
NoCommandBeforeThirdFrameAfterResume ==
  (emitted # NoEvent /\ pauseRun.resumed) => pauseRun.n >= MIN_PERSISTENCE_FRAMES

\* ---- properties of AccessControlService.notify ----

\* C30: one call of notify publishes its access message at most once, whatever
\* the order of the connect, reconnect, error, acknowledgement and timeout
\* events of its client, and publishes nothing after it resolved with a failure.
NotifyPublishesAtMostOnce ==
  /\ notify.publishes <= 1
  /\ outbox # <<>> => notify.result \in {"pending", "ok"}

\* C26: every call of notify eventually resolves, with ok true only after the
\* broker accepted the publish and ok false otherwise; once the timer has fired
\* a call whose connection is not established is resolved, also when the
\* connection was lost after connecting and before the acknowledgement.
NotifyAlwaysResolves ==
  /\ [](notify.result = "ok" => notify.publishes >= 1)
  /\ []((notify.timer = "fired" /\ notify.client # "connected")
          => notify.result \notin {"none", "pending"})
  /\ (notify.result = "pending") ~> (notify.result # "pending")

====
